---- MODULE Spec2Model ----
(***************************************************************************)
(* A model of the streaming wavelet toy: the VC-2 lifting filter tables    *)
(* (vc2_wavelet_definitions.py), the logging lazy lists and their access   *)
(* logger (logging_lazy_lists.py) and the chain construction and access    *)
(* orders (streaming_wavelet_toy.py).                                      *)
(*                                                                         *)
(* Python's recursion (LoggingLazyList.__getitem__ calling compute_value   *)
(* calling __getitem__ of the source array) is modelled by an explicit     *)
(* stack of activations, `frames`; one action is taken per call and per    *)
(* return.                                                                 *)
(***************************************************************************)
EXTENDS Integers, Sequences, FiniteSets, TLC

(***************************************************************************)
(* Bounds of the model.                                                    *)
(***************************************************************************)
\* Longest input sequence read through the logging lazy lists.
MaxLen == 3
\* Number of reads the free access order makes.
MaxReads == 1
\* Longest input sequence the lifting stages are applied to as a block.
MaxLiftLen == 4
\* The samples of the input sequences read through the logging lazy lists.
Values == {3, 98}
\* The input samples the lifting stages are applied to as a block.
LiftValues == -2..2
\* Largest S and largest L of the stage descriptors made outside the tables,
\* and the longest taps sequence given to them.
MaxShift == 1
MaxTaps == 2
\* The D and the taps of those descriptors.
DelayValues == {-1, 0}
TapValues == {-1, 2}
\* Number of times such a descriptor is inverted.
MaxInversions == 2

Min(a, b) == IF a < b THEN a ELSE b
Max(a, b) == IF a > b THEN a ELSE b

(***************************************************************************)
(* vc2_wavelet_definitions.py                                              *)
(***************************************************************************)
WaveletFilters ==
    { "deslauriers_dubuc_9_7", "le_gall_5_3", "deslauriers_dubuc_13_7",
      "haar_no_shift", "haar_with_shift", "fidelity", "daubechies_9_7" }

even_add_odd == 1
even_subtract_odd == 2
odd_add_even == 3
odd_subtract_even == 4

LiftingFilterTypes ==
    { even_add_odd, even_subtract_odd, odd_add_even, odd_subtract_even }

update_even(lift_type) == lift_type \in { even_add_odd, even_subtract_odd }

add(lift_type) == lift_type \in { even_add_odd, odd_add_even }

LiftingStage(lift_type, S, L, D, taps) ==
    [ lift_type |-> lift_type, S |-> S, L |-> L, D |-> D, taps |-> taps ]

\* A table that takes each kind to the next one.
InvertedLiftTypeCycle(lift_type) == (lift_type % 4) + 1

\* {LiftingFilterTypes(1): LiftingFilterTypes(2), ...}[self.lift_type]
InvertedLiftType(lift_type) ==
    CASE lift_type = 1 -> 2
      [] lift_type = 2 -> 1
      [] lift_type = 3 -> 4
      [] lift_type = 4 -> 3

with_inverted_lift_type(stage) ==
    LiftingStage(InvertedLiftType(stage.lift_type),
                 stage.S, stage.L, stage.D, stage.taps)

SYNTHESIS_FILTERS(wavelet) ==
    CASE wavelet = "deslauriers_dubuc_9_7" ->
           << LiftingStage(2, 2, 2, 0, <<1, 1>>),
              LiftingStage(3, 4, 4, -1, <<-1, 9, 9, -1>>) >>
      [] wavelet = "le_gall_5_3" ->
           << LiftingStage(2, 2, 2, 0, <<1, 1>>),
              LiftingStage(3, 1, 2, 0, <<1, 1>>) >>
      [] wavelet = "deslauriers_dubuc_13_7" ->
           << LiftingStage(2, 5, 4, -1, <<-1, 9, 9, -1>>),
              LiftingStage(3, 4, 4, -1, <<-1, 9, 9, -1>>) >>
      [] wavelet = "haar_no_shift" ->
           << LiftingStage(2, 1, 1, 1, <<1>>),
              LiftingStage(3, 0, 1, 0, <<1>>) >>
      [] wavelet = "haar_with_shift" ->
           << LiftingStage(2, 1, 1, 1, <<1>>),
              LiftingStage(3, 0, 1, 0, <<1>>) >>
      [] wavelet = "fidelity" ->
           << LiftingStage(3, 8, 8, -3, <<-2, -10, -25, 81, 81, -25, 10, -2>>),
              LiftingStage(2, 8, 8, -3, <<-8, 21, -46, 161, 161, -46, 21, -8>>) >>
      [] wavelet = "daubechies_9_7" ->
           << LiftingStage(2, 12, 2, 0, <<1817, 1817>>),
              LiftingStage(4, 12, 2, 0, <<3616, 3616>>),
              LiftingStage(1, 12, 2, 0, <<217, 217>>),
              LiftingStage(3, 12, 2, 0, <<6497, 6497>>) >>

\* The stages inverted, in the order of the synthesis list.
ANALYSIS_FILTERSInOrder(wavelet) ==
    LET stages == SYNTHESIS_FILTERS(wavelet)
    IN  [ j \in 1..Len(stages) |-> with_inverted_lift_type(stages[j]) ]

\* [stage.with_inverted_lift_type() for stage in reversed(stages)]
ANALYSIS_FILTERS(wavelet) ==
    LET stages == SYNTHESIS_FILTERS(wavelet)
    IN  [ j \in 1..Len(stages) |->
            with_inverted_lift_type(stages[Len(stages) + 1 - j]) ]

(***************************************************************************)
(* LiftedLLL.compute_value, as a function of the source's values.          *)
(* A source is a function from 0..n-1 to the integers.                     *)
(***************************************************************************)
\* 1 << n
RECURSIVE ShiftLeftOne(_)
ShiftLeftOne(n) == IF n = 0 THEN 1 ELSE 2 * ShiftLeftOne(n - 1)

\* A shift that rounds towards zero.
ShiftRightOneTruncating(x) == IF x >= 0 THEN x \div 2 ELSE -((-x) \div 2)

\* x >> 1 on Python's integers: the low bit is dropped, the sign is kept.
ShiftRightOne(x) == (x - (x % 2)) \div 2

\* x >> n, one bit after the other: y is x shifted by one bit.
RECURSIVE ShiftRight(_, _)
ShiftRight(x, n) ==
    IF n = 0 THEN x
    ELSE CHOOSE r \in { ShiftRight(y, n - 1) : y \in { ShiftRightOne(x) } } : TRUE

\* A clamp with the upper bound of the even-update kinds for every kind.
NeighbourPosOneBound(lift_type, n, index, i) ==
    Max(Min(index + (2 * i) - 1, n - 1), IF update_even(lift_type) THEN 1 ELSE 0)

\* The position read in iteration i of the loop (i in D..L+D-1) from a source
\* of length n: index + 2*i - 1, then min, then max.
NeighbourPos(lift_type, n, index, i) ==
    LET pos0 == index + (2 * i) - 1
        pos1 == Min(pos0, n - (IF update_even(lift_type) THEN 1 ELSE 2))
    IN  Max(pos1, IF update_even(lift_type) THEN 1 ELSE 0)

\* sum += taps[i - D] * source[pos]
Accumulate(sum, stage, i, value) == sum + stage.taps[i - stage.D + 1] * value

\* if S > 0: sum += 1 << (S - 1); sum >>= S
RoundShift(sum, S) ==
    ShiftRight(IF S > 0 THEN sum + ShiftLeftOne(S - 1) ELSE sum, S)

\* return source[index] + sum  /  return source[index] - sum
Combine(lift_type, value, sum) ==
    IF add(lift_type) THEN value + sum ELSE value - sum

\* The test of the parity, inverted.
RewrittenInverted(lift_type, index) == update_even(lift_type) # ((index % 2) = 0)

\* (index % 2) == 0; lift_type.update_even == even
Rewritten(lift_type, index) == update_even(lift_type) = ((index % 2) = 0)

\* The sum after the iterations i..L+D-1 of the loop, started from sum.
RECURSIVE LoopSum(_, _, _, _, _)
LoopSum(stage, source, index, i, sum) ==
    IF i >= stage.L + stage.D THEN sum
    ELSE LET n   == Cardinality(DOMAIN source)
             pos == NeighbourPos(stage.lift_type, n, index, i)
         IN  LoopSum(stage, source, index, i + 1,
                     Accumulate(sum, stage, i, source[pos]))

compute_value(stage, source, index) ==
    IF Rewritten(stage.lift_type, index)
    THEN Combine(stage.lift_type, source[index],
                 RoundShift(LoopSum(stage, source, index, stage.D, 0), stage.S))
    ELSE source[index]

(***************************************************************************)
(* logging_lazy_lists.py: the records and the lazy lists.                  *)
(*                                                                         *)
(* A slot of _values is Unknown or Known(v); an end_time that is still     *)
(* None is NoTime (no tick returns it: the first tick returns 1).          *)
(* A reference to an array is its position in the list `arrays`, and a     *)
(* reference to a CallRecord is its position in call_log.                  *)
(***************************************************************************)
Unknown == << >>
Known(value) == << value >>
ValueOf(slot) == slot[1]

NoTime == 0

AccessRecord(array_name, index, start_time) ==
    [ array_name |-> array_name, index |-> index,
      start_time |-> start_time, end_time |-> NoTime ]

CallRecord(array_name, index, start_time) ==
    [ array_name |-> array_name, index |-> index,
      start_time |-> start_time, end_time |-> NoTime, access_log |-> << >> ]

\* LoggingLazyList(name, values, logger): a pre-populated list.
LoggingLazyList(name, values) ==
    [ name |-> name,
      _values |-> [ i \in 0..(Len(values) - 1) |-> Known(values[i + 1]) ] ]

\* LiftedLLL(name, source, lift, logger): len(source) Unknown slots.
LiftedLLL(name, source, length, lift) ==
    [ name |-> name,
      _values |-> [ i \in 0..(length - 1) |-> Unknown ],
      _source |-> source,
      _lift |-> lift ]

\* len(array)
LenOf(array) == Cardinality(DOMAIN array._values)

(***************************************************************************)
(* streaming_wavelet_toy.py: the chain of arrays.                          *)
(***************************************************************************)
\* Arrays that all read the array at position input_lll.
construct_lifted_arraysFromInput(input_lll, length, lifting_stages, intermediate_name_prefix, final_name) ==
    [ j \in 1..Len(lifting_stages) |->
        LiftedLLL(IF j - 1 # Len(lifting_stages) - 1
                  THEN intermediate_name_prefix \o ToString(j)
                  ELSE final_name,
                  input_lll, length, lifting_stages[j]) ]

\* The arrays made for lifting_stages, the first one reading the array at
\* position input_lll; the array of stage i (from 0) is at input_lll + i + 1.
construct_lifted_arrays(input_lll, length, lifting_stages, intermediate_name_prefix, final_name) ==
    [ j \in 1..Len(lifting_stages) |->
        LiftedLLL(IF j - 1 # Len(lifting_stages) - 1
                  THEN intermediate_name_prefix \o ToString(j)
                  ELSE final_name,
                  input_lll + j - 1, length, lifting_stages[j]) ]

\* The list of arrays, as a function of the positions 0..len(arrays)-1.
construct_all_arrays(values, w) ==
    LET na == Len(ANALYSIS_FILTERS(w))
        all == << LoggingLazyList("Encoder Input", values) >>
                 \o construct_lifted_arrays(0, Len(values), ANALYSIS_FILTERS(w),
                        "Encode Intermediate ", "Encode Out/Decode In")
                 \o construct_lifted_arrays(na, Len(values), SYNTHESIS_FILTERS(w),
                        "Decode Intermediate ", "Decoder Output")
    IN  [ k \in 0..(Len(all) - 1) |-> all[k + 1] ]

\* The position of arrays[-1].
LastArray(w) == Len(ANALYSIS_FILTERS(w)) + Len(SYNTHESIS_FILTERS(w))

(***************************************************************************)
(* The access orders: the sequence of reads <<array, index>> each makes.   *)
(***************************************************************************)
\* list(array)
ReadAll(k, n) == [ j \in 1..n |-> << k, j - 1 >> ]

RECURSIVE BlockReads(_, _, _)
BlockReads(k, last, n) ==
    IF k > last THEN << >> ELSE ReadAll(k, n) \o BlockReads(k + 1, last, n)

\* An order that reads the last array before the others.
access_like_block_filterLastFirst(w, n) ==
    ReadAll(LastArray(w), n) \o BlockReads(0, LastArray(w) - 1, n)

\* for array in arrays: list(array)
access_like_block_filter(w, n) == BlockReads(0, LastArray(w), n)

\* An order that reads the encoder's output and nothing after it.
access_on_demandOfEncoded(w, n) == ReadAll(Len(ANALYSIS_FILTERS(w)), n)

\* list(arrays[-1])
access_on_demand(w, n) == ReadAll(LastArray(w), n)

\* An order that reads the decoder's output before the encoder's.
access_on_demand_decode_then_encode(w, n) ==
    ReadAll(LastArray(w), n) \o ReadAll(Len(ANALYSIS_FILTERS(w)), n)

\* list(arrays[len(ANALYSIS_FILTERS[wavelet])]); list(arrays[-1])
access_on_demand_encode_then_decode(w, n) ==
    ReadAll(Len(ANALYSIS_FILTERS(w)), n) \o ReadAll(LastArray(w), n)

\* delays: delays[k], k from 0, is the sum of the L of the stages before
\* array k.
Delays(w) ==
    LET stages == ANALYSIS_FILTERS(w) \o SYNTHESIS_FILTERS(w)
        delays[k \in 0..Len(stages)] ==
            IF k = 0 THEN 0 ELSE delays[k - 1] + stages[k].L
    IN  delays

\* max(delays)
MaxDelay(delays) ==
    CHOOSE d \in { delays[k] : k \in DOMAIN delays } :
        \A k \in DOMAIN delays : delays[k] <= d

\* The reads of iteration i of the outer loop, for the arrays from k on.
RECURSIVE ChainedRow(_, _, _, _)
ChainedRow(delays, n, i, k) ==
    IF k \notin DOMAIN delays THEN << >>
    ELSE (IF 0 <= i - delays[k] /\ i - delays[k] < n
          THEN << << k, i - delays[k] >> >> ELSE << >>)
         \o ChainedRow(delays, n, i, k + 1)

\* The reads of the iterations from i on of the outer loop.
RECURSIVE ChainedReads(_, _, _, _)
ChainedReads(delays, n, i, last) ==
    IF i >= last THEN << >>
    ELSE ChainedRow(delays, n, i, 0) \o ChainedReads(delays, n, i + 1, last)

access_like_chained_filters(w, n) ==
    LET delays == Delays(w)
    IN  ChainedReads(delays, n, 0, n + MaxDelay(delays))

Orders == { "block", "chained", "lazy", "lazy_two_steps", "free" }

Schedule(o, w, n) ==
    CASE o = "block" -> access_like_block_filter(w, n)
      [] o = "chained" -> access_like_chained_filters(w, n)
      [] o = "lazy" -> access_on_demand(w, n)
      [] o = "lazy_two_steps" -> access_on_demand_encode_then_decode(w, n)
      [] o = "free" -> << >>

(***************************************************************************)
(* The state.                                                              *)
(***************************************************************************)
VARIABLES
    wavelet,            \* the wavelet of the chain
    input_values,       \* the input sequence of the chain
    order,              \* the access order that drives the reads
    reads,              \* the number of reads the access order has made
    arrays,             \* the chain: arrays[k].name, ._values, ._source, ._lift
    _time,              \* AccessLogger._time
    _call_stack,        \* AccessLogger._call_stack (references into call_log)
    call_log,           \* AccessLogger.call_log
    first_access_time,  \* AccessLogger.first_access_time
    last_access_time,   \* AccessLogger.last_access_time
    frames,             \* the activations of __getitem__, outermost first
    read_values,        \* for each (array name, index), the values reads returned
    stages              \* the LiftingStage objects made outside the tables

logger == << _time, _call_stack, call_log, first_access_time, last_access_time >>

vars == << wavelet, input_values, order, reads, arrays, logger, frames,
           read_values, stages >>

\* The sequences over vals of length 2..maxlen.
Inputs(vals, maxlen) == UNION { [ 1..n -> vals ] : n \in 2..maxlen }

\* input_values = list(range(args.num_values))
Ascending(n) == [ j \in 1..n |-> j - 1 ]

\* A sequence of n samples, a and b in turn.
Alternating(n, a, b) == [ j \in 1..n |-> IF j % 2 = 1 THEN a ELSE b ]

\* The inputs of the chain, of length 2..maxlen: the ascending input, and
\* the inputs that alternate between two different samples of vals.  (No
\* step of a read depends on the value of a sample.)
ChainInputs(vals, maxlen) ==
    UNION { { Ascending(n) }
              \cup { Alternating(n, p[1], p[2]) :
                        p \in { q \in vals \X vals : q[1] # q[2] } } :
            n \in 2..maxlen }

EmptyMap == [ key \in {} |-> NoTime ]

\* AccessLogger.__init__
LoggerInit ==
    /\ _time = 0
    /\ _call_stack = << >>
    /\ call_log = << >>
    /\ first_access_time = EmptyMap
    /\ last_access_time = EmptyMap

Init ==
    /\ wavelet \in WaveletFilters
    /\ input_values \in ChainInputs(Values, MaxLen)
    /\ order \in Orders
    /\ reads = 0
    /\ arrays = construct_all_arrays(input_values, wavelet)
    /\ LoggerInit
    /\ frames = << >>
    /\ read_values = [ key \in {} |-> {} ]
    /\ stages = << >>

(***************************************************************************)
(* Python's list indexing: list[index] for -len <= index < len, a negative *)
(* index counting from the end; IndexError for any other index.            *)
(***************************************************************************)
InRange(values, index) ==
    -Cardinality(DOMAIN values) <= index /\ index < Cardinality(DOMAIN values)

PyIndex(values, index) ==
    IF index < 0 THEN index + Cardinality(DOMAIN values) ELSE index

\* The exceptions the reads raise.
Exceptions == { "IndexError", "NotImplementedError" }

(***************************************************************************)
(* AccessLogger                                                            *)
(***************************************************************************)
\* A clock that does not advance.
TickStuck(t) == t

\* The time property: self._time += 1; return self._time
Tick(t) == t + 1

\* An append of the call record, twice.
PushTwice(stack, call_record) == Append(Append(stack, call_record), call_record)

\* self._call_stack.append(call_record)
Push(stack, call_record) == Append(stack, call_record)

\* A pop that leaves the frame on the stack.
PopNothing(stack) == stack

\* A pop of the outermost frame.
PopOutermost(stack) == SubSeq(stack, 2, Len(stack))

\* self._call_stack.pop(-1): the stack that is left
Pop(stack) == SubSeq(stack, 1, Len(stack) - 1)

\* The outermost frame of the stack.
TopOutermost(stack) == stack[1]

\* self._call_stack[-1]
Top(stack) == stack[Len(stack)]

\* A first access time that every read sets again.
SetFirstAccessAlways(times, key, t) == (key :> t) @@ times

\* A first access time taken two ticks early: before the end of the
\* computation that the read made.
SetFirstAccessEarly(times, key, t) ==
    IF key \in DOMAIN times THEN times ELSE (key :> t - 2) @@ times

\* if (array_name, index) not in self.first_access_time: ...[...] = t
SetFirstAccess(times, key, t) ==
    IF key \in DOMAIN times THEN times ELSE (key :> t) @@ times

\* self.last_access_time[(array_name, index)] = t
SetLastAccess(times, key, t) == (key :> t) @@ times

\* A store that puts the value in the slot after the one computed.
StoreValueShifted(values, index, value) ==
    [ values EXCEPT ![(index + 1) % Cardinality(DOMAIN values)] = Known(value) ]

\* A store that makes a new list holding the computed value only.
StoreValueFresh(values, index, value) ==
    [ j \in DOMAIN values |-> IF j = index THEN Known(value) ELSE Unknown ]

\* self._values[index] = value
StoreValue(values, index, value) ==
    [ values EXCEPT ![PyIndex(values, index)] = Known(value) ]

\* A test of the slot that never finds a value.
IsUnknownAlways(existing_value) == TRUE

\* isinstance(existing_value, Unknown)
IsUnknown(existing_value) == existing_value = Unknown

(***************************************************************************)
(* LoggingLazyList.__getitem__(index) of arrays[k], from its entry to the  *)
(* first call it makes of the source's __getitem__ (or to its return       *)
(* statement, for a slot that holds a value): log_access up to its yield,  *)
(* the test of the slot, new_context up to its yield and compute_value up  *)
(* to its first read of the source.                                        *)
(***************************************************************************)
Frame(k, index, access_start, access_call, access_pos, call_record, pc, value) ==
    [ array |-> k, index |-> index,
      access_start |-> access_start,  \* access_record.start_time
      access_call |-> access_call,    \* the call record that holds access_record
      access_pos |-> access_pos,      \* its place in that record's access_log
      call_record |-> call_record,    \* new_context's call_record, 0 if none
      pc |-> pc, i |-> 0, sum |-> 0, value |-> value ]

Read(k, index) ==
    LET arr  == arrays[k]
        t1   == Tick(_time)
        access_record == AccessRecord(arr.name, index, t1)
        top  == IF _call_stack # << >> THEN Top(_call_stack) ELSE 0
        log1 == IF _call_stack # << >>
                THEN [ call_log EXCEPT ![top].access_log =
                                           Append(@, access_record) ]
                ELSE call_log
        pos  == IF top = 0 THEN 0 ELSE Len(log1[top].access_log)
        existing_value == arr._values[PyIndex(arr._values, index)]
    IN  IF ~InRange(arr._values, index)
        THEN /\ _time' = t1
             /\ _call_stack' = _call_stack
             /\ call_log' = log1
             /\ frames' = Append(frames,
                    Frame(k, index, t1, top, pos, 0, "IndexError", 0))
        ELSE IF IsUnknown(existing_value)
        THEN LET t2 == Tick(t1)
                 call_record == CallRecord(arr.name, index, t2)
                 ref == Len(log1) + 1
             IN  /\ _time' = t2
                 /\ _call_stack' = Push(_call_stack, ref)
                 /\ call_log' = Append(log1, call_record)
                 /\ frames' = Append(frames,
                      IF "_lift" \notin DOMAIN arr
                      THEN Frame(k, index, t1, top, pos, ref,
                                 "NotImplementedError", 0)
                      ELSE IF Rewritten(arr._lift.lift_type, index)
                      THEN [ Frame(k, index, t1, top, pos, ref, "loop", 0)
                               EXCEPT !.i = arr._lift.D ]
                      ELSE Frame(k, index, t1, top, pos, ref, "pass", 0))
        ELSE /\ _time' = t1
             /\ _call_stack' = _call_stack
             /\ call_log' = log1
             /\ frames' = Append(frames,
                    Frame(k, index, t1, top, pos, 0, "return",
                          ValueOf(existing_value)))

\* An access order other than "free" makes its next read.
Access ==
    /\ frames = << >>
    /\ order # "free"
    /\ LET schedule == Schedule(order, wavelet, Len(input_values))
       IN  /\ reads < Len(schedule)
           /\ Read(schedule[reads + 1][1], schedule[reads + 1][2])
    /\ reads' = reads + 1
    /\ UNCHANGED << wavelet, input_values, order, arrays, first_access_time,
                    last_access_time, read_values, stages >>

\* Any read of any array of the chain, in range.
FreeAccess ==
    /\ frames = << >>
    /\ order = "free"
    /\ reads < MaxReads
    /\ \E k \in DOMAIN arrays : \E index \in DOMAIN arrays[k]._values :
           Read(k, index)
    /\ reads' = reads + 1
    /\ UNCHANGED << wavelet, input_values, order, arrays, first_access_time,
                    last_access_time, read_values, stages >>

\* compute_value reads its source: self._source[pos] in the loop, or
\* self._source[index] after it or in the else branch.
SourceRead ==
    /\ frames # << >>
    /\ LET f   == frames[Len(frames)]
           arr == arrays[f.array]
       IN  /\ f.pc \in { "loop", "final", "pass" }
           /\ Read(arr._source,
                   IF f.pc = "loop"
                   THEN NeighbourPos(arr._lift.lift_type,
                                     LenOf(arrays[arr._source]), f.index, f.i)
                   ELSE f.index)
    /\ UNCHANGED << wavelet, input_values, order, reads, arrays,
                    first_access_time, last_access_time, read_values, stages >>

\* A compute_value that does not go on after a read of its source.
ResumeStalled(f, lift, value) == [ f EXCEPT !.pc = "stalled" ]

\* compute_value, from the return of a read of its source to its next read
\* of the source or to its return statement.
Resume(f, lift, value) ==
    CASE f.pc = "loop" ->
           LET sum == Accumulate(f.sum, lift, f.i, value)
           IN  IF f.i + 1 < lift.L + lift.D
               THEN [ f EXCEPT !.sum = sum, !.i = f.i + 1 ]
               ELSE [ f EXCEPT !.sum = RoundShift(sum, lift.S), !.i = f.i + 1,
                               !.pc = "final" ]
      [] f.pc = "final" ->
           [ f EXCEPT !.value = Combine(lift.lift_type, value, f.sum),
                      !.pc = "return" ]
      [] f.pc = "pass" ->
           [ f EXCEPT !.value = value, !.pc = "return" ]

\* __getitem__ returns: the rest of new_context (when a value was computed),
\* the store into _values, the rest of log_access, and the caller goes on.
Return ==
    /\ frames # << >>
    /\ LET f    == frames[Len(frames)]
           arr  == arrays[f.array]
           key  == << arr.name, f.index >>
           computed == f.call_record # 0
           \* new_context, after the yield
           t1   == IF computed THEN Tick(_time) ELSE _time
           log1 == IF computed
                   THEN [ call_log EXCEPT ![f.call_record].end_time = t1 ]
                   ELSE call_log
           \* log_access, after the yield
           t    == Tick(t1)
           log2 == IF f.access_call # 0
                   THEN [ log1 EXCEPT
                            ![f.access_call].access_log[f.access_pos].end_time = t ]
                   ELSE log1
           rest == SubSeq(frames, 1, Len(frames) - 1)
       IN  /\ f.pc = "return"
           /\ computed => Top(_call_stack) = f.call_record
           /\ _call_stack' = IF computed THEN Pop(_call_stack) ELSE _call_stack
           /\ arrays' = IF computed
                        THEN [ arrays EXCEPT ![f.array]._values =
                                   StoreValue(@, f.index, f.value) ]
                        ELSE arrays
           /\ _time' = t
           /\ call_log' = log2
           /\ first_access_time' = SetFirstAccess(first_access_time, key, t)
           /\ last_access_time' = SetLastAccess(last_access_time, key, t)
           /\ read_values' =
                  (key :> ((IF key \in DOMAIN read_values
                            THEN read_values[key] ELSE {}) \cup { f.value }))
                  @@ read_values
           /\ frames' =
                  IF rest = << >> THEN rest
                  ELSE [ rest EXCEPT ![Len(rest)] =
                           Resume(@, arrays[@.array]._lift, f.value) ]
    /\ UNCHANGED << wavelet, input_values, order, reads, stages >>

\* An exception leaves __getitem__: the finally clause of new_context (when
\* it was raised inside compute_value) and the finally clause of log_access;
\* nothing is stored, and the exception goes on in the caller, which has no
\* handler.
Unwind ==
    /\ frames # << >>
    /\ LET f    == frames[Len(frames)]
           arr  == arrays[f.array]
           key  == << arr.name, f.index >>
           computed == f.call_record # 0
           \* new_context, the finally clause
           t1   == IF computed THEN Tick(_time) ELSE _time
           log1 == IF computed
                   THEN [ call_log EXCEPT ![f.call_record].end_time = t1 ]
                   ELSE call_log
           \* log_access, the finally clause
           t    == Tick(t1)
           log2 == IF f.access_call # 0
                   THEN [ log1 EXCEPT
                            ![f.access_call].access_log[f.access_pos].end_time = t ]
                   ELSE log1
           rest == SubSeq(frames, 1, Len(frames) - 1)
       IN  /\ f.pc \in Exceptions
           /\ computed => Top(_call_stack) = f.call_record
           /\ _call_stack' = IF computed THEN Pop(_call_stack) ELSE _call_stack
           /\ _time' = t
           /\ call_log' = log2
           /\ first_access_time' = SetFirstAccess(first_access_time, key, t)
           /\ last_access_time' = SetLastAccess(last_access_time, key, t)
           /\ frames' =
                  IF rest = << >> THEN rest
                  ELSE [ rest EXCEPT ![Len(rest)].pc = f.pc ]
    /\ UNCHANGED << wavelet, input_values, order, reads, arrays, read_values,
                    stages >>

Next == Access \/ FreeAccess \/ SourceRead \/ Return

Spec == Init /\ [][Next]_vars

\* The program is one thread of control: a read that has started goes on
\* with its next call or return.  The caller need not make another read.
SpecLive == Spec /\ WF_vars(SourceRead) /\ WF_vars(Return)

(***************************************************************************)
(* Reads that fail.  A pre-populated list may hold Unknown slots, which    *)
(* have no compute rule (LoggingLazyList.compute_value raises              *)
(* NotImplementedError); the caller of a read that fails goes on to make   *)
(* other reads.                                                            *)
(***************************************************************************)
\* The chain, its first array pre-populated with Unknown() at holes.
WithUnknown(chain, holes) ==
    [ chain EXCEPT ![0]._values =
        [ i \in DOMAIN @ |-> IF i \in holes THEN Unknown ELSE @[i] ] ]

InitError ==
    /\ wavelet \in WaveletFilters
    /\ input_values \in { Ascending(n) : n \in 2..MaxLen }
    /\ order = "free"
    /\ reads = 0
    /\ \E holes \in SUBSET (0..(Len(input_values) - 1)) :
          arrays = WithUnknown(construct_all_arrays(input_values, wavelet), holes)
    /\ LoggerInit
    /\ frames = << >>
    /\ read_values = [ key \in {} |-> {} ]
    /\ stages = << >>

NextError == FreeAccess \/ SourceRead \/ Return \/ Unwind

SpecError == InitError /\ [][NextError]_vars

(***************************************************************************)
(* Reads at indices outside 0..len-1.                                      *)
(***************************************************************************)
\* Indices below 0 and from n on.
StrayIndexes(n) == { -(n + 1), -n, -1, n }

InitStray ==
    /\ wavelet \in WaveletFilters
    /\ input_values \in { Ascending(n) : n \in 2..MaxLen }
    /\ order = "free"
    /\ reads = 0
    /\ arrays = construct_all_arrays(input_values, wavelet)
    /\ LoggerInit
    /\ frames = << >>
    /\ read_values = [ key \in {} |-> {} ]
    /\ stages = << >>

\* A read of any array of the chain at an index outside 0..len-1.
StrayAccess ==
    /\ frames = << >>
    /\ reads < MaxReads
    /\ \E k \in DOMAIN arrays : \E index \in StrayIndexes(LenOf(arrays[k])) :
           Read(k, index)
    /\ reads' = reads + 1
    /\ UNCHANGED << wavelet, input_values, order, arrays, first_access_time,
                    last_access_time, read_values, stages >>

NextStray == StrayAccess \/ SourceRead \/ Return \/ Unwind

SpecStray == InitStray /\ [][NextStray]_vars

(***************************************************************************)
(* The lifting stages applied as a block: every slot of an array computed  *)
(* by compute_value from the values of its source, one array per step.     *)
(* No read is logged.                                                      *)
(***************************************************************************)
\* The values held by a list whose slots are all Known.
SourceValues(array) == [ i \in DOMAIN array._values |-> ValueOf(array._values[i]) ]

AllKnown(array) == \A i \in DOMAIN array._values : array._values[i] # Unknown

AllUnknown(array) == \A i \in DOMAIN array._values : array._values[i] = Unknown

InitLift ==
    /\ wavelet \in WaveletFilters
    /\ input_values \in Inputs(LiftValues, MaxLiftLen)
    /\ order = "block"
    /\ reads = 0
    /\ arrays = construct_all_arrays(input_values, wavelet)
    /\ LoggerInit
    /\ frames = << >>
    /\ read_values = [ key \in {} |-> {} ]
    /\ stages = << >>

LiftArray ==
    /\ \E k \in DOMAIN arrays :
          /\ "_lift" \in DOMAIN arrays[k]
          /\ AllUnknown(arrays[k])
          /\ AllKnown(arrays[arrays[k]._source])
          /\ arrays' = [ arrays EXCEPT ![k]._values =
                 [ i \in DOMAIN @ |->
                     Known(compute_value(arrays[k]._lift,
                               SourceValues(arrays[arrays[k]._source]), i)) ] ]
    /\ UNCHANGED << wavelet, input_values, order, reads, logger, frames,
                    read_values, stages >>

NextLift == LiftArray

SpecLift == InitLift /\ [][NextLift]_vars

(***************************************************************************)
(* LiftingStage objects made outside the tables: LiftingStage is a         *)
(* NamedTuple, which stores the fields it is given, whatever they are; a   *)
(* stage is then inverted again and again, each inverse a new object.      *)
(***************************************************************************)
\* The sequences over vals of length 0..maxlen.
TapsUpTo(vals, maxlen) == UNION { [ 1..n -> vals ] : n \in 0..maxlen }

\* LiftingStage(lift_type, S, L, D, taps), for fields within the bounds.
StageDescriptors ==
    { LiftingStage(lift_type, S, L, D, taps) :
        lift_type \in LiftingFilterTypes, S \in 0..MaxShift, L \in 0..MaxTaps,
        D \in DelayValues, taps \in TapsUpTo(TapValues, MaxTaps) }

InitStage ==
    /\ wavelet = "haar_no_shift"
    /\ input_values = << >>
    /\ order = "free"
    /\ reads = 0
    /\ arrays = << >>
    /\ LoggerInit
    /\ frames = << >>
    /\ read_values = [ key \in {} |-> {} ]
    /\ \E stage \in StageDescriptors : stages = << stage >>

\* stage.with_inverted_lift_type() of the stage made last.
InvertStage ==
    /\ Len(stages) <= MaxInversions
    /\ stages' = Append(stages, with_inverted_lift_type(stages[Len(stages)]))
    /\ UNCHANGED << wavelet, input_values, order, reads, arrays, logger, frames,
                    read_values >>

NextStage == InvertStage

SpecStage == InitStage /\ [][NextStage]_vars

(***************************************************************************)
(* Definitions used to state the properties.                               *)
(***************************************************************************)
\* The array called name.
ArrayOf(name) == CHOOSE k \in DOMAIN arrays : arrays[k].name = name

IsLifted(k) == "_lift" \in DOMAIN arrays[k]

Last == LastArray(wavelet)

\* The values compute_value gives for the indices from i on, as a tuple.
RECURSIVE BlockTuple(_, _, _)
BlockTuple(stage, source, i) ==
    IF i \notin DOMAIN source THEN << >>
    ELSE << compute_value(stage, source, i) >> \o BlockTuple(stage, source, i + 1)

AsSource(tuple) == [ i \in 0..(Len(tuple) - 1) |-> tuple[i + 1] ]

\* The values the arrays 0..k hold once each of them, in this order, has been
\* computed in full from the input (block order): a tuple of tuples.
RECURSIVE BlockOrder(_)
BlockOrder(k) ==
    IF k = 0 THEN << input_values >>
    ELSE LET before == BlockOrder(k - 1)
         IN  Append(before,
                    BlockTuple(arrays[k]._lift,
                               AsSource(before[arrays[k]._source + 1]), 0))

\* A read of (array k, index i) has completed at least twice.
ReadTwice(k, i) ==
    /\ << arrays[k].name, i >> \in DOMAIN first_access_time
    /\ first_access_time[<< arrays[k].name, i >>]
         < last_access_time[<< arrays[k].name, i >>]

(***************************************************************************)
(* C1. Round trip: once every slot of the last array, "Decoder Output",    *)
(* has been read, it equals the input sequence element for element.        *)
(* Stated for every input length from 2 on, odd lengths included.          *)
(***************************************************************************)
C1_RoundTrip ==
    AllKnown(arrays[Last]) =>
        \A i \in DOMAIN arrays[Last]._values :
            ValueOf(arrays[Last]._values[i]) = input_values[i + 1]

(***************************************************************************)
(* C2. Evaluation-order independence: whatever reads were made, in any     *)
(* order, every slot that holds a value holds the value it gets under      *)
(* block order.                                                            *)
(***************************************************************************)
C2_OrderIndependent ==
    LET block == BlockOrder(Last)
    IN  \A k \in DOMAIN arrays : \A i \in DOMAIN arrays[k]._values :
            arrays[k]._values[i] # Unknown =>
                ValueOf(arrays[k]._values[i]) = block[k + 1][i + 1]

\* A lazy read of the last array has completed while other slots of the
\* chain are still unknown: the chain is not in a state block order reaches.
C2_Witness ==
    /\ order \in { "lazy", "free" }
    /\ frames = << >>
    /\ \E i \in DOMAIN arrays[Last]._values : arrays[Last]._values[i] # Unknown
    /\ \E k \in DOMAIN arrays : ~AllKnown(arrays[k])
    /\ Len(call_log) >= 2

(***************************************************************************)
(* C3. Memoization: every read of the same (array, index) returns the same *)
(* value; the call log holds at most one call record per (array, index):   *)
(* exactly one once a slot of a lifted array has been read, none for the   *)
(* slots of the input array.                                               *)
(***************************************************************************)
CallsOf(name, index) ==
    { p \in DOMAIN call_log :
        call_log[p].array_name = name /\ call_log[p].index = index }

C3_Memoization ==
    /\ \A key \in DOMAIN read_values : Cardinality(read_values[key]) = 1
    /\ \A k \in DOMAIN arrays : \A i \in DOMAIN arrays[k]._values :
          /\ Cardinality(CallsOf(arrays[k].name, i)) <= 1
          /\ ~IsLifted(k) => CallsOf(arrays[k].name, i) = {}
          /\ (IsLifted(k) /\ << arrays[k].name, i >> \in DOMAIN read_values)
                => Cardinality(CallsOf(arrays[k].name, i)) = 1

\* A slot of a lifted array has been read at least twice.
C3_Witness ==
    \E k \in DOMAIN arrays : \E i \in DOMAIN arrays[k]._values :
        IsLifted(k) /\ ReadTwice(k, i)

(***************************************************************************)
(* C4. Write-once slots: a step changes a slot only from Unknown to a      *)
(* value; a slot that holds a value keeps it; no array changes length.     *)
(***************************************************************************)
C4_WriteOnce ==
    [][ \A k \in DOMAIN arrays :
          /\ DOMAIN arrays'[k]._values = DOMAIN arrays[k]._values
          /\ \A i \in DOMAIN arrays[k]._values :
                arrays[k]._values[i] # Unknown =>
                    arrays'[k]._values[i] = arrays[k]._values[i] ]_vars

\* A slot was computed, and another slot of the same array was computed
\* after it was read again.
C4_Witness ==
    \E k \in DOMAIN arrays : \E i, j \in DOMAIN arrays[k]._values :
        /\ IsLifted(k) /\ i # j
        /\ ReadTwice(k, i)
        /\ arrays[k]._values[i] # Unknown /\ arrays[k]._values[j] # Unknown
        /\ \E p \in CallsOf(arrays[k].name, j) :
              call_log[p].start_time > first_access_time[<< arrays[k].name, i >>]

(***************************************************************************)
(* The lifting arithmetic as the specification words it.                   *)
(***************************************************************************)
\* The parity of index is the one the kind rewrites.
ParityRewritten(lift_type, index) ==
    IF update_even(lift_type) THEN index % 2 = 0 ELSE index % 2 = 1

Clamp(pos, lo, hi) == IF pos < lo THEN lo ELSE IF pos > hi THEN hi ELSE pos

\* clamp(index + 2*(k+D) - 1), k in 0..L-1, for a source of length n.
ClampedPos(stage, n, index, k) ==
    Clamp(index + 2 * (k + stage.D) - 1,
          IF update_even(stage.lift_type) THEN 1 ELSE 0,
          IF update_even(stage.lift_type) THEN n - 1 ELSE n - 2)

\* The sum over k..L-1 of taps[k] * source[clamp(index + 2*(k+D) - 1)].
RECURSIVE TapSum(_, _, _, _)
TapSum(stage, source, index, k) ==
    IF k >= stage.L THEN 0
    ELSE stage.taps[k + 1]
           * source[ClampedPos(stage, Cardinality(DOMAIN source), index, k)]
         + TapSum(stage, source, index, k + 1)

\* r: the sum, rounded and divided by 2^S (floor), or the plain sum if S = 0.
Correction(stage, source, index) ==
    LET sum == TapSum(stage, source, index, 0)
    IN  IF stage.S > 0
        THEN (sum + 2 ^ (stage.S - 1)) \div (2 ^ stage.S)
        ELSE sum

(***************************************************************************)
(* C5. Lifting arithmetic: at an index of the parity its stage rewrites, a *)
(* computed value is source[index] + r for an add kind and                 *)
(* source[index] - r for a subtract kind, r the rounded, floor-shifted sum *)
(* of the taps times the clamped neighbours.                               *)
(***************************************************************************)
C5_LiftingArithmetic ==
    \A k \in DOMAIN arrays :
        (IsLifted(k) /\ AllKnown(arrays[k])) =>
            LET stage  == arrays[k]._lift
                source == SourceValues(arrays[arrays[k]._source])
            IN  \A i \in DOMAIN arrays[k]._values :
                    ParityRewritten(stage.lift_type, i) =>
                        ValueOf(arrays[k]._values[i]) =
                            IF add(stage.lift_type)
                            THEN source[i] + Correction(stage, source, i)
                            ELSE source[i] - Correction(stage, source, i)

\* A value was computed from a negative sum that the shift does not divide
\* exactly, with a neighbour position that the clamp moved.
C5_Witness ==
    \E k \in DOMAIN arrays : \E i \in DOMAIN arrays[k]._values :
        /\ IsLifted(k) /\ AllKnown(arrays[k])
        /\ ParityRewritten(arrays[k]._lift.lift_type, i)
        /\ arrays[k]._lift.S > 0
        /\ LET stage == arrays[k]._lift
               sum   == TapSum(stage, SourceValues(arrays[arrays[k]._source]), i, 0)
                          + 2 ^ (stage.S - 1)
           IN  /\ sum < 0
               /\ sum % (2 ^ stage.S) # 0
               /\ \E t \in 0..(stage.L - 1) :
                     ClampedPos(stage, Len(input_values), i, t)
                        # i + 2 * (t + stage.D) - 1

(***************************************************************************)
(* C6. Pass-through: at an index of the parity its stage does not rewrite, *)
(* a lifted array holds the value of its source at that index, and the     *)
(* computation read source[index] and nothing else.                        *)
(***************************************************************************)
C6_PassThrough ==
    \A k \in DOMAIN arrays : \A i \in DOMAIN arrays[k]._values :
        (IsLifted(k) /\ ~ParityRewritten(arrays[k]._lift.lift_type, i)) =>
            LET source == arrays[arrays[k]._source]
            IN  /\ arrays[k]._values[i] # Unknown =>
                      arrays[k]._values[i] = source._values[i]
                /\ \A p \in CallsOf(arrays[k].name, i) :
                      /\ Len(call_log[p].access_log) <= 1
                      /\ call_log[p].end_time # NoTime =>
                            Len(call_log[p].access_log) = 1
                      /\ \A q \in DOMAIN call_log[p].access_log :
                            /\ call_log[p].access_log[q].array_name = source.name
                            /\ call_log[p].access_log[q].index = i

\* A slot of the parity its stage leaves alone was computed.
C6_Witness ==
    \E k \in DOMAIN arrays : \E i \in DOMAIN arrays[k]._values :
        /\ IsLifted(k) /\ ~ParityRewritten(arrays[k]._lift.lift_type, i)
        /\ arrays[k]._values[i] # Unknown
        /\ \E p \in CallsOf(arrays[k].name, i) : call_log[p].end_time # NoTime

(***************************************************************************)
(* C7. Opposite-parity neighbour reads: every neighbour position a         *)
(* computation at a rewritten index reads from its source (the first L     *)
(* reads of the call) has the parity opposite to the index.                *)
(* Stated for every array length from 2 on.                                *)
(***************************************************************************)
C7_OppositeParity ==
    \A p \in DOMAIN call_log :
        LET call  == call_log[p]
            stage == arrays[ArrayOf(call.array_name)]._lift
        IN  ParityRewritten(stage.lift_type, call.index) =>
                \A q \in DOMAIN call.access_log :
                    q <= stage.L =>
                        call.access_log[q].index % 2 # call.index % 2

(***************************************************************************)
(* C8. The shortest input: for input [a, b] and LeGall 5/3 both taps of    *)
(* every stage read the one sample of the other parity; the first analysis *)
(* array is [a, b - a], the encoded array [a + floor((b - a + 1) / 2),     *)
(* b - a] and the decoded array [a, b].                                    *)
(***************************************************************************)
C8_ShortestInput ==
    (wavelet = "le_gall_5_3" /\ Len(input_values) = 2) =>
        LET a == input_values[1]
            b == input_values[2]
            first   == arrays[1]
            encoded == arrays[ArrayOf("Encode Out/Decode In")]
            decoded == arrays[ArrayOf("Decoder Output")]
        IN  /\ \A k \in DOMAIN arrays : \A index \in 0..1 :
                  (IsLifted(k) /\ ParityRewritten(arrays[k]._lift.lift_type, index))
                     => \A i \in arrays[k]._lift.D
                                 ..(arrays[k]._lift.L + arrays[k]._lift.D - 1) :
                           NeighbourPos(arrays[k]._lift.lift_type, 2, index, i)
                              = 1 - index
            /\ AllKnown(first) => SourceValues(first) = AsSource(<< a, b - a >>)
            /\ AllKnown(encoded) =>
                  SourceValues(encoded)
                     = AsSource(<< a + ((b - a + 1) \div 2), b - a >>)
            /\ AllKnown(decoded) => SourceValues(decoded) = AsSource(<< a, b >>)

\* The chain of LeGall 5/3 was computed for an input [a, b] with b - a + 1
\* odd and negative.
C8_Witness ==
    /\ wavelet = "le_gall_5_3" /\ Len(input_values) = 2
    /\ input_values[2] - input_values[1] + 1 < 0
    /\ (input_values[2] - input_values[1] + 1) % 2 = 1
    /\ AllKnown(arrays[ArrayOf("Decoder Output")])

(***************************************************************************)
(* The timestamps the logger has handed out that are still held somewhere: *)
(* each is named by the place that holds it.                               *)
(***************************************************************************)
CallStarts == { << "call start", p, 0 >> : p \in DOMAIN call_log }

CallEnds ==
    { << "call end", p, 0 >> :
        p \in { r \in DOMAIN call_log : call_log[r].end_time # NoTime } }

AccessStarts ==
    UNION { { << "access start", p, q >> : q \in DOMAIN call_log[p].access_log } :
            p \in DOMAIN call_log }

AccessEnds ==
    UNION { { << "access end", p, q >> :
                q \in { r \in DOMAIN call_log[p].access_log :
                          call_log[p].access_log[r].end_time # NoTime } } :
            p \in DOMAIN call_log }

\* The access record of a read made outside any computation is held by the
\* read only.
TopLevelStarts ==
    { << "read start", j, 0 >> :
        j \in { r \in DOMAIN frames : frames[r].access_call = 0 } }

Stamp(e) ==
    CASE e[1] = "call start" -> call_log[e[2]].start_time
      [] e[1] = "call end" -> call_log[e[2]].end_time
      [] e[1] = "access start" -> call_log[e[2]].access_log[e[3]].start_time
      [] e[1] = "access end" -> call_log[e[2]].access_log[e[3]].end_time
      [] e[1] = "read start" -> frames[e[2]].access_start

Stamps(events) == { Stamp(e) : e \in events }

Injective(f) == Cardinality({ f[x] : x \in DOMAIN f }) = Cardinality(DOMAIN f)

(***************************************************************************)
(* C9. Clock monotonicity: every step advances the clock, so every tick    *)
(* returns more than the tick before; the start and end times of the call  *)
(* records and of the access records are pairwise distinct, the first      *)
(* access times of distinct (array, index) pairs are distinct and so are   *)
(* their last access times, and an access time is the time of no other     *)
(* event than the end of a read of that pair.                              *)
(***************************************************************************)
C9_DistinctStamps ==
    LET events == CallStarts \cup CallEnds \cup AccessStarts \cup AccessEnds
                     \cup TopLevelStarts
        others == Stamps(CallStarts \cup CallEnds \cup AccessStarts
                            \cup TopLevelStarts)
    IN  /\ Cardinality(Stamps(events)) = Cardinality(events)
        /\ \A t \in Stamps(events) : 1 <= t /\ t <= _time
        /\ Injective(first_access_time)
        /\ Injective(last_access_time)
        /\ \A key \in DOMAIN first_access_time :
              /\ first_access_time[key] \notin others
              /\ last_access_time[key] \notin others
              /\ 1 <= first_access_time[key] /\ last_access_time[key] <= _time
              /\ \A other \in DOMAIN last_access_time :
                    other # key => first_access_time[key] # last_access_time[other]
              /\ \A e \in AccessEnds :
                    Stamp(e) \in { first_access_time[key], last_access_time[key] }
                       => key = << call_log[e[2]].access_log[e[3]].array_name,
                                   call_log[e[2]].access_log[e[3]].index >>

C9_ClockMonotonic == [] C9_DistinctStamps /\ [][ _time' > _time ]_vars

\* Reads have completed, one pair was read more than once, and a call record
\* holds several access records.
C9_Witness ==
    /\ frames = << >>
    /\ \E key \in DOMAIN first_access_time :
          first_access_time[key] < last_access_time[key]
    /\ \E p \in DOMAIN call_log : Len(call_log[p].access_log) >= 2
    /\ Cardinality(DOMAIN first_access_time) >= 2

(***************************************************************************)
(* C10. Stack balance: when no read is in progress the call stack is empty *)
(* and every call record has an end time later than its start time; while  *)
(* computations are in flight their call records are the call stack, in    *)
(* the order they started, so the frame a computation pops at its exit is  *)
(* the frame it pushed.                                                    *)
(***************************************************************************)
InFlight == SelectSeq(frames, LAMBDA f : f.call_record # 0)

C10_StackBalance ==
    /\ frames = << >> =>
          /\ _call_stack = << >>
          /\ \A p \in DOMAIN call_log :
                /\ call_log[p].end_time # NoTime
                /\ call_log[p].start_time < call_log[p].end_time
    /\ _call_stack = [ j \in 1..Len(InFlight) |-> InFlight[j].call_record ]
    /\ \A j \in DOMAIN frames :
          frames[j].call_record # 0 =>
              /\ call_log[frames[j].call_record].array_name
                    = arrays[frames[j].array].name
              /\ call_log[frames[j].call_record].index = frames[j].index
    /\ \A p \in DOMAIN call_log :
          /\ call_log[p].end_time = NoTime
                <=> \E j \in DOMAIN _call_stack : _call_stack[j] = p
          /\ call_log[p].end_time # NoTime =>
                call_log[p].start_time < call_log[p].end_time

\* A read made outside any computation has completed after a computation
\* that ran inside another computation.
C10_Witness ==
    /\ frames = << >>
    /\ \E p, q \in DOMAIN call_log :
          /\ call_log[p].start_time < call_log[q].start_time
          /\ call_log[q].end_time < call_log[p].end_time

(***************************************************************************)
(* C11. Access logging on every read: the read that completes in a step    *)
(* sets the last access time of its (array, index) to its completion time, *)
(* whether its slot held a value or was computed; a first access time,     *)
(* once set, never changes, and is set by the first read of the pair to    *)
(* complete; a read of a slot that holds a value appends no call record;   *)
(* the two maps have the same keys, those of the pairs a read of which has *)
(* completed, with first_access_time <= last_access_time.                  *)
(***************************************************************************)
\* The frame of the read that completes in this step.
Completing == frames[Len(frames)]

\* The frame of the read that starts in this step.
Starting == frames'[Len(frames')]

C11_MapsAgree ==
    /\ DOMAIN first_access_time = DOMAIN last_access_time
    /\ DOMAIN first_access_time = DOMAIN read_values
    /\ \A key \in DOMAIN first_access_time :
          first_access_time[key] <= last_access_time[key]

C11_EveryReadLogged ==
    /\ \A key \in DOMAIN first_access_time :
          /\ key \in DOMAIN first_access_time'
          /\ first_access_time'[key] = first_access_time[key]
    /\ Len(frames') < Len(frames) =>
          LET key == << arrays[Completing.array].name, Completing.index >>
          IN  /\ key \in DOMAIN last_access_time'
              /\ last_access_time'[key] = _time'
              /\ key \notin DOMAIN first_access_time
                    => first_access_time'[key] = _time'
              /\ \A other \in DOMAIN last_access_time :
                    other # key => last_access_time'[other] = last_access_time[other]
              /\ Completing.call_record = 0 => Len(call_log') = Len(call_log)
    /\ Len(frames') > Len(frames) =>
          /\ arrays[Starting.array]._values[Starting.index] # Unknown
                => Len(call_log') = Len(call_log)
          /\ first_access_time' = first_access_time
          /\ last_access_time' = last_access_time

C11_AccessLogging == [] C11_MapsAgree /\ [][ C11_EveryReadLogged ]_vars

\* A slot of the input array and a slot of a lifted array have each been read
\* when they held a value already, and no read is in progress.
C11_Witness ==
    /\ frames = << >>
    /\ \E i \in DOMAIN arrays[0]._values : ReadTwice(0, i)
    /\ \E k \in DOMAIN arrays : \E i \in DOMAIN arrays[k]._values :
          /\ IsLifted(k) /\ ReadTwice(k, i)
          /\ Cardinality(CallsOf(arrays[k].name, i)) = 1

(***************************************************************************)
(* C12. Dependency record of a computation: the access log of a call       *)
(* record of lifted array A at index i names A's source only and is, in    *)
(* order, the L clamped neighbour positions followed by i when i is of the *)
(* parity the stage rewrites, and the single position i when it is not     *)
(* (a prefix of that while the computation is in flight); a read made      *)
(* while no computation is active is in no access log, and a read made by  *)
(* a nested computation is in the log of that computation only.            *)
(***************************************************************************)
\* The source positions a computation of index reads, in order.
Dependencies(stage, n, index) ==
    IF ParityRewritten(stage.lift_type, index)
    THEN [ q \in 1..(stage.L + 1) |->
             IF q <= stage.L THEN ClampedPos(stage, n, index, q - 1) ELSE index ]
    ELSE << index >>

\* The call record is active at time t.
ActiveAt(call, t) ==
    call.start_time < t /\ (call.end_time = NoTime \/ t < call.end_time)

C12_Records ==
    /\ \A p \in DOMAIN call_log :
          LET call == call_log[p]
              k    == ArrayOf(call.array_name)
              deps == Dependencies(arrays[k]._lift, LenOf(arrays[k]), call.index)
          IN  /\ IsLifted(k)
              /\ Len(call.access_log) <= Len(deps)
              /\ call.end_time # NoTime => Len(call.access_log) = Len(deps)
              /\ \A q \in DOMAIN call.access_log :
                    LET access == call.access_log[q]
                    IN  /\ access.array_name = arrays[arrays[k]._source].name
                        /\ access.index = deps[q]
                        /\ ActiveAt(call, access.start_time)
                        /\ \A r \in DOMAIN call_log :
                              (r # p /\ ActiveAt(call_log[r], access.start_time))
                                 => call_log[r].start_time < call.start_time
    /\ \A j \in DOMAIN frames :
          /\ (frames[j].access_call = 0) <=> (j = 1)
          /\ j > 1 =>
                /\ frames[j].access_call = frames[j - 1].call_record
                /\ frames[j].access_pos
                      = Len(call_log[frames[j].access_call].access_log)
                /\ call_log[frames[j].access_call].access_log[frames[j].access_pos]
                      .start_time = frames[j].access_start

C12_DependencyRecord == [] C12_Records

\* A computation at a rewritten index, nested in another computation, has
\* completed with more than one neighbour in its access log, one of them a
\* position the clamp moved, and the read made outside any computation that
\* started them has returned.
C12_Witness ==
    \E p, r \in DOMAIN call_log :
        LET call == call_log[p]
            k    == ArrayOf(call.array_name)
        IN  /\ call.end_time # NoTime
            /\ ParityRewritten(arrays[k]._lift.lift_type, call.index)
            /\ arrays[k]._lift.L >= 2
            /\ \E t \in 0..(arrays[k]._lift.L - 1) :
                  ClampedPos(arrays[k]._lift, LenOf(arrays[k]), call.index, t)
                     # call.index + 2 * (t + arrays[k]._lift.D) - 1
            /\ ActiveAt(call_log[r], call.start_time)
            /\ frames = << >>

(***************************************************************************)
(* C13. Chain construction is purely structural: right after               *)
(* construct_all_arrays (no read made yet) the clock is where the logger's *)
(* construction left it, the call log, the call stack and the access maps  *)
(* are empty, every slot of every lifted array is Unknown and the input    *)
(* array holds the input values; the chain has one array, plus one per     *)
(* analysis stage, plus one per synthesis stage, each of the input's       *)
(* length, each lifted array reading the array just before it with the     *)
(* stages of the tables in order.                                          *)
(***************************************************************************)
C13_PurelyStructural ==
    LET lifts == ANALYSIS_FILTERS(wavelet) \o SYNTHESIS_FILTERS(wavelet)
    IN  /\ (reads = 0 /\ frames = << >>) =>
              /\ _time = 0
              /\ call_log = << >>
              /\ _call_stack = << >>
              /\ DOMAIN first_access_time = {}
              /\ DOMAIN last_access_time = {}
              /\ \A k \in DOMAIN arrays : IsLifted(k) => AllUnknown(arrays[k])
              /\ \A i \in DOMAIN arrays[0]._values :
                    arrays[0]._values[i] = Known(input_values[i + 1])
        /\ DOMAIN arrays = 0..(Len(ANALYSIS_FILTERS(wavelet))
                                 + Len(SYNTHESIS_FILTERS(wavelet)))
        /\ ~IsLifted(0)
        /\ \A k \in DOMAIN arrays :
              /\ DOMAIN arrays[k]._values = 0..(Len(input_values) - 1)
              /\ k > 0 =>
                    /\ IsLifted(k)
                    /\ arrays[k]._source = k - 1
                    /\ arrays[k]._lift = lifts[k]
        /\ arrays[0].name = "Encoder Input"
        /\ arrays[Len(ANALYSIS_FILTERS(wavelet))].name = "Encode Out/Decode In"
        /\ arrays[Last].name = "Decoder Output"

\* A chain of nine arrays has just been made for an input of three samples
\* or more.
C13_Witness ==
    /\ reads = 0 /\ frames = << >>
    /\ Last = 8
    /\ Len(input_values) >= 3
    /\ arrays = construct_all_arrays(input_values, wavelet)

(***************************************************************************)
(* C14. Derived analysis table: for every wavelet the analysis list is as  *)
(* long as the synthesis list, and its stage j (from 0) is the inverse of  *)
(* the synthesis stage n - 1 - j: add and subtract exchanged, the same     *)
(* even or odd class, the same S, L, D and taps.  The stages bound to the  *)
(* arrays of the chain are related in the same way.                        *)
(***************************************************************************)
\* a is the inverse of s.
InverseOf(a, s) ==
    /\ update_even(a.lift_type) = update_even(s.lift_type)
    /\ add(a.lift_type) # add(s.lift_type)
    /\ a.S = s.S /\ a.L = s.L /\ a.D = s.D /\ a.taps = s.taps

C14_DerivedAnalysis ==
    /\ \A w \in WaveletFilters :
          LET analysis  == ANALYSIS_FILTERS(w)
              synthesis == SYNTHESIS_FILTERS(w)
              n         == Len(synthesis)
          IN  /\ Len(analysis) = n
              /\ \A j \in 0..(n - 1) :
                    InverseOf(analysis[j + 1], synthesis[(n - 1 - j) + 1])
    /\ LET n == Len(SYNTHESIS_FILTERS(wavelet))
       IN  \A j \in 0..(n - 1) :
               InverseOf(arrays[1 + j]._lift, arrays[n + (n - 1 - j) + 1]._lift)

\* The encoded array of a wavelet whose two stages differ in S, L, D and taps
\* has been computed in full.
C14_Witness ==
    /\ wavelet = "deslauriers_dubuc_9_7"
    /\ AllKnown(arrays[Len(ANALYSIS_FILTERS(wavelet))])
    /\ ANALYSIS_FILTERS(wavelet)[1].L # ANALYSIS_FILTERS(wavelet)[2].L

(***************************************************************************)
(* C15. Stage inversion is an involution: for a stage descriptor of any of *)
(* the four kinds, one inversion keeps S, L, D and taps and the even or    *)
(* odd class and exchanges add and subtract; two inversions give a         *)
(* descriptor equal to the original.                                       *)
(***************************************************************************)
C15_Involution ==
    \A j \in DOMAIN stages :
        /\ stages[j].lift_type \in LiftingFilterTypes
        /\ j >= 2 => InverseOf(stages[j], stages[j - 1])
        /\ j >= 3 => stages[j] = stages[j - 2]

\* A stage of an odd subtract kind with two taps has been inverted twice.
C15_Witness ==
    /\ Len(stages) >= 3
    /\ stages[1].lift_type = odd_subtract_even
    /\ stages[2].lift_type = odd_add_even
    /\ stages[1].L = 2 /\ Len(stages[1].taps) = 2

(***************************************************************************)
(* C18. Malformed stage descriptors are rejected at construction: no stage *)
(* descriptor exists whose taps sequence has a length other than its L.    *)
(***************************************************************************)
C18_TapCount ==
    \A j \in DOMAIN stages : Len(stages[j].taps) = stages[j].L

(***************************************************************************)
(* C16. Out-of-range reads: a read of any array at an index below 0 or     *)
(* from the array's length on ends in a bounds error, returns no value and *)
(* resolves no slot of any array.                                          *)
(***************************************************************************)
OutOfRange(k, index) == index < 0 \/ index >= LenOf(arrays[k])

C16_BoundsError ==
    /\ \A j \in DOMAIN frames :
          OutOfRange(frames[j].array, frames[j].index)
             => frames[j].pc = "IndexError"
    /\ \A key \in DOMAIN read_values :
          ~OutOfRange(ArrayOf(key[1]), key[2])
    /\ (\A key \in DOMAIN last_access_time : OutOfRange(ArrayOf(key[1]), key[2]))
          => \A k \in DOMAIN arrays : IsLifted(k) => AllUnknown(arrays[k])

(***************************************************************************)
(* C17. Frame pop on the error path: when a computation fails (a read      *)
(* reaches, directly or through lifted arrays, an Unknown slot of a        *)
(* pre-populated array, which has no compute rule) the error goes up to    *)
(* the caller of the outermost read; every frame pushed during the read is *)
(* popped, so that the call stack is what it was before the read; every    *)
(* call record popped has its end time; every slot whose computation       *)
(* failed stays Unknown.                                                   *)
(***************************************************************************)
\* For the arrays 0..k, the indices whose value cannot be computed: the
\* Unknown slots of the pre-populated array, and the indices of a lifted
\* array one of whose dependencies cannot be computed.
RECURSIVE Uncomputable(_)
Uncomputable(k) ==
    IF k = 0
    THEN << { i \in DOMAIN arrays[0]._values : arrays[0]._values[i] = Unknown } >>
    ELSE LET before == Uncomputable(k - 1)
         IN  Append(before,
               { i \in DOMAIN arrays[k]._values :
                   LET deps == Dependencies(arrays[k]._lift, LenOf(arrays[k]), i)
                   IN  \E q \in DOMAIN deps :
                          deps[q] \in before[arrays[k]._source + 1] })

C17_Unwound ==
    /\ frames = << >> =>
          /\ _call_stack = << >>
          /\ \A p \in DOMAIN call_log :
                /\ call_log[p].end_time # NoTime
                /\ call_log[p].start_time < call_log[p].end_time
    /\ _call_stack = [ j \in 1..Len(InFlight) |-> InFlight[j].call_record ]
    /\ \A j \in DOMAIN frames : frames[j].pc \in Exceptions => j = Len(frames)
    /\ LET failing == Uncomputable(Last)
       IN  \A k \in DOMAIN arrays : \A i \in failing[k + 1] :
              /\ arrays[k]._values[i] = Unknown
              /\ << arrays[k].name, i >> \notin DOMAIN read_values

C17_ErrorStep ==
    (Len(frames') < Len(frames) /\ Completing.pc \in Exceptions) =>
        /\ arrays' = arrays
        /\ read_values' = read_values
        /\ frames' # << >> => frames'[Len(frames')].pc = Completing.pc
        /\ Completing.call_record # 0 =>
              /\ Top(_call_stack) = Completing.call_record
              /\ _call_stack' = SubSeq(_call_stack, 1, Len(_call_stack) - 1)
              /\ call_log'[Completing.call_record].end_time # NoTime
              /\ call_log'[Completing.call_record].end_time
                    > call_log[Completing.call_record].start_time

C17_FramePop == [] C17_Unwound /\ [][ C17_ErrorStep ]_vars

\* A read has failed through two lifted arrays at least: the call record of
\* the pre-populated array's slot ended inside that of a lifted array, which
\* ended inside that of another, and a read of another slot has returned a
\* value.
C17_Witness ==
    /\ frames = << >>
    /\ DOMAIN read_values # {}
    /\ \E p, q, r \in DOMAIN call_log :
          /\ call_log[r].array_name = arrays[0].name
          /\ ActiveAt(call_log[q], call_log[r].start_time)
          /\ ActiveAt(call_log[p], call_log[q].start_time)
          /\ call_log[p].end_time # NoTime
          /\ arrays[ArrayOf(call_log[p].array_name)]._values[call_log[p].index]
                = Unknown

(***************************************************************************)
(* C19. Shape of the active-call stack: the call stack holds at most one   *)
(* frame per lifted array and none for the input array; from the outermost *)
(* frame to the innermost the arrays go down the chain, the array of each  *)
(* frame being the source of the array of the frame before it; so no       *)
(* (array, index) is on the stack twice and the stack is never deeper than *)
(* the number of lifted arrays.                                            *)
(***************************************************************************)
\* The chain position of the array of frame j of the call stack.
StackArray(j) == ArrayOf(call_log[_call_stack[j]].array_name)

C19_StackShape ==
    /\ Len(_call_stack) <= Last
    /\ \A j \in DOMAIN _call_stack :
          /\ IsLifted(StackArray(j))
          /\ j < Len(_call_stack) =>
                StackArray(j + 1) = arrays[StackArray(j)]._source
    /\ \A j, h \in DOMAIN _call_stack :
          j # h =>
             /\ StackArray(j) # StackArray(h)
             /\ << call_log[_call_stack[j]].array_name, call_log[_call_stack[j]].index >>
                   # << call_log[_call_stack[h]].array_name,
                        call_log[_call_stack[h]].index >>

\* The call stack holds a frame for each lifted array of a chain of five
\* arrays or more.
C19_Witness ==
    /\ Last >= 4
    /\ Len(_call_stack) = Last
    /\ StackArray(1) = Last /\ StackArray(Last) = 1

(***************************************************************************)
(* C20. Termination of reads: a read of any array of the chain at an index *)
(* in range, started in any reachable state, eventually returns a value,   *)
(* after finitely many nested reads and computations: at most one          *)
(* computation per slot of the lifted arrays, each making L + 1 reads at   *)
(* most.                                                                   *)
(***************************************************************************)
C20_Finite ==
    /\ Len(call_log) <= Len(input_values) * Last
    /\ \A p \in DOMAIN call_log :
          Len(call_log[p].access_log)
             <= arrays[ArrayOf(call_log[p].array_name)]._lift.L + 1
    /\ frames = << >> =>
          /\ reads > 0 => DOMAIN read_values # {}
          /\ \A p \in DOMAIN call_log :
                arrays[ArrayOf(call_log[p].array_name)]
                   ._values[call_log[p].index] # Unknown

C20_Termination == ((frames # << >>) ~> (frames = << >>)) /\ [] C20_Finite

\* The first read of the lazy order, of the last array of a chain whose
\* slots were all Unknown, has returned after nested computations in every
\* lifted array.
C20_Witness ==
    /\ order = "lazy" /\ reads = 1 /\ frames = << >>
    /\ arrays[Last]._values[0] # Unknown
    /\ Len(call_log) >= Last
    /\ \A k \in DOMAIN arrays :
          IsLifted(k) => \E p \in DOMAIN call_log :
                            call_log[p].array_name = arrays[k].name

(***************************************************************************)
(* C21. Block order computes one stage at a time: under                    *)
(* access_like_block_filter on a freshly built chain, every read of the    *)
(* source made by a computation finds a slot that holds a value already,   *)
(* so the call stack is never deeper than one, no call record is active    *)
(* while another one starts, and every call record of array k has ended    *)
(* before any call record of array k + 1 (or of a later array) starts.     *)
(***************************************************************************)
C21_OneStageAtATime ==
    order = "block" =>
        /\ Len(_call_stack) <= 1
        /\ Len(frames) <= 2
        /\ \A j \in DOMAIN frames :
              j > 1 => /\ frames[j].call_record = 0
                       /\ frames[j].pc = "return"
                       /\ frames[j].array = arrays[frames[1].array]._source
        /\ \A p, q \in DOMAIN call_log :
              /\ p # q => ~ActiveAt(call_log[p], call_log[q].start_time)
              /\ ArrayOf(call_log[p].array_name) < ArrayOf(call_log[q].array_name)
                    => /\ call_log[p].end_time # NoTime
                       /\ call_log[p].end_time < call_log[q].start_time

C21_BlockOrder == [] C21_OneStageAtATime

\* The block order has read every array of a chain of five arrays or more
\* to its end: every slot of every lifted array was computed, each by a
\* call record of its own that read its source.
C21_Witness ==
    /\ order = "block" /\ frames = << >>
    /\ reads = Len(access_like_block_filter(wavelet, Len(input_values)))
    /\ Last >= 4
    /\ Len(call_log) = Len(input_values) * Last
    /\ \A p \in DOMAIN call_log : call_log[p].access_log # << >>
    /\ \A k \in DOMAIN arrays : AllKnown(arrays[k])

(***************************************************************************)
(* C22. Demand-driven evaluation is complete: on a freshly built chain,    *)
(* reading only the slots of the last array (access_on_demand reads each   *)
(* index 0..length-1 of it once) leaves every slot of every array of the   *)
(* chain holding a value, because the computation of slot i of a lifted    *)
(* array always reads slot i of its source: once the read of slot i of     *)
(* the last array has returned, slot i of every array holds a value, and   *)
(* every completed call record ends its access log with a read of its      *)
(* source at the index of the call.                                        *)
(***************************************************************************)
C22_Demanded ==
    /\ \A p \in DOMAIN call_log :
          LET call == call_log[p]
              k    == ArrayOf(call.array_name)
          IN  call.end_time # NoTime =>
                 /\ call.access_log # << >>
                 /\ call.access_log[Len(call.access_log)].array_name
                       = arrays[arrays[k]._source].name
                 /\ call.access_log[Len(call.access_log)].index = call.index
    /\ (order = "lazy" /\ frames = << >>) =>
          /\ reads <= Len(input_values)
          /\ \A k \in DOMAIN arrays : \A i \in 0..(reads - 1) :
                arrays[k]._values[i] # Unknown
          /\ reads = Len(input_values) =>
                \A k \in DOMAIN arrays : AllKnown(arrays[k])

C22_DemandDriven == [] C22_Demanded

\* The lazy order has read every slot of the last array of a chain of five
\* arrays or more, for an input of the longest length: every read of the
\* order was of the last array, and every slot of every lifted array was
\* computed on the way.
C22_Witness ==
    /\ order = "lazy" /\ frames = << >>
    /\ Len(input_values) = MaxLen /\ reads = MaxLen
    /\ Last >= 4
    /\ \A j \in 1..reads : Schedule(order, wavelet, MaxLen)[j][1] = Last
    /\ Len(call_log) = MaxLen * Last
    /\ \A k \in DOMAIN arrays : AllKnown(arrays[k])

(***************************************************************************)
(* C23. Logged time respects causality: for every completed call record of *)
(* a lifted array A at index i, the access that triggered it starts before *)
(* the call starts (and ends after the call ends), every access in the     *)
(* call's access log starts after the call's start time and ends before    *)
(* the call's end time, every source slot it read has a first access time  *)
(* earlier than the call's end time, and the first access time of (A, i)   *)
(* is later than the call's end time; while the call has not ended, (A, i) *)
(* has no first access time: a value is never recorded as first known      *)
(* before the computation that produced it, and its inputs, were complete. *)
(***************************************************************************)
\* The access records of (name, index), in any access log, whose time
\* interval overlaps the one of the call.
AccessesAround(call) ==
    { access \in UNION { { call_log[r].access_log[q] :
                              q \in DOMAIN call_log[r].access_log } :
                         r \in DOMAIN call_log } :
        /\ access.array_name = call.array_name
        /\ access.index = call.index
        /\ call.end_time # NoTime => access.start_time < call.end_time
        /\ access.end_time # NoTime => call.start_time < access.end_time }

C23_Causal ==
    /\ \A p \in DOMAIN call_log :
          LET call == call_log[p]
              key  == << call.array_name, call.index >>
              triggers == AccessesAround(call)
              nested == \E r \in DOMAIN call_log :
                            ActiveAt(call_log[r], call.start_time)
          IN  /\ IsLifted(ArrayOf(call.array_name))
              /\ call.start_time >= 2
              /\ Cardinality(triggers) = IF nested THEN 1 ELSE 0
              /\ \A access \in triggers :
                    /\ access.start_time < call.start_time
                    /\ call.end_time # NoTime =>
                          /\ access.end_time # NoTime
                          /\ call.end_time < access.end_time
              /\ call.end_time = NoTime => key \notin DOMAIN first_access_time
              /\ call.end_time # NoTime =>
                    /\ call.start_time < call.end_time
                    /\ key \in DOMAIN first_access_time
                    /\ call.end_time < first_access_time[key]
                    /\ \A q \in DOMAIN call.access_log :
                          LET access == call.access_log[q]
                              slot   == << access.array_name, access.index >>
                          IN  /\ call.start_time < access.start_time
                              /\ access.end_time # NoTime
                              /\ access.start_time < access.end_time
                              /\ access.end_time < call.end_time
                              /\ slot \in DOMAIN first_access_time
                              /\ first_access_time[slot] < call.end_time
    /\ \A j \in DOMAIN frames :
          frames[j].call_record # 0 =>
             frames[j].access_start < call_log[frames[j].call_record].start_time

C23_Causality == [] C23_Causal

\* A read made outside any computation has returned after a computation
\* that read more than one slot of its source, one of these reads having
\* triggered a computation of its own, nested in the first, that has also
\* completed.
C23_Witness ==
    /\ frames = << >>
    /\ \E p, r \in DOMAIN call_log :
          /\ p # r
          /\ Len(call_log[p].access_log) >= 2
          /\ call_log[p].end_time # NoTime /\ call_log[r].end_time # NoTime
          /\ ~ \E o \in DOMAIN call_log :
                  ActiveAt(call_log[o], call_log[p].start_time)
          /\ \E q \in DOMAIN call_log[p].access_log :
                /\ call_log[p].access_log[q] \in AccessesAround(call_log[r])
                /\ call_log[p].access_log[q].start_time + 1
                      = call_log[r].start_time

(***************************************************************************)
(* C24. The two-step lazy order separates encoding from decoding: under    *)
(* access_on_demand_encode_then_decode on a freshly built chain, the first *)
(* phase reads the last analysis array (the array at the chain position    *)
(* equal to the number of analysis stages, named "Encode Out/Decode In"),  *)
(* after which every slot of the input and of every analysis array holds a *)
(* value and every slot of every synthesis array is Unknown; and every     *)
(* call record of an analysis array ends before any call record of a       *)
(* synthesis array starts.                                                 *)
(***************************************************************************)
Encoded == Len(ANALYSIS_FILTERS(wavelet))

C24_Separated ==
    order = "lazy_two_steps" =>
        LET n == Len(input_values)
            schedule == Schedule(order, wavelet, n)
        IN  /\ arrays[Encoded].name = "Encode Out/Decode In"
            /\ Len(schedule) = 2 * n
            /\ \A j \in 1..n : /\ schedule[j][1] = Encoded
                               /\ schedule[n + j][1] = Last
            \* during the first phase no synthesis array is touched
            /\ (reads < n \/ (reads = n /\ frames = << >>)) =>
                  \A k \in DOMAIN arrays : k > Encoded => AllUnknown(arrays[k])
            \* at the end of the first phase, and from then on
            /\ (reads > n \/ (reads = n /\ frames = << >>)) =>
                  \A k \in DOMAIN arrays : k <= Encoded => AllKnown(arrays[k])
            /\ \A p, q \in DOMAIN call_log :
                  (/\ ArrayOf(call_log[p].array_name) <= Encoded
                   /\ ArrayOf(call_log[q].array_name) > Encoded)
                     => /\ call_log[p].end_time # NoTime
                        /\ call_log[p].end_time < call_log[q].start_time

C24_TwoSteps == [] C24_Separated

\* The two-step lazy order has ended on a five-array chain: both phases
\* made computations, the analysis arrays' in the first and the synthesis
\* arrays' in the second.
C24_Witness ==
    /\ order = "lazy_two_steps" /\ frames = << >>
    /\ reads = 2 * Len(input_values)
    /\ Last >= 4 /\ Encoded >= 2
    /\ \A k \in DOMAIN arrays : AllKnown(arrays[k])
    /\ \A k \in DOMAIN arrays :
          IsLifted(k) => \E p \in DOMAIN call_log :
                            call_log[p].array_name = arrays[k].name

\* The first phase of the two-step lazy order has ended.
C24_WitnessFirstPhase ==
    /\ order = "lazy_two_steps" /\ frames = << >>
    /\ reads = Len(input_values)
    /\ \A k \in DOMAIN arrays : k <= Encoded => AllKnown(arrays[k])
    /\ \A k \in DOMAIN arrays : k > Encoded => AllUnknown(arrays[k])

====
